---------------------------- MODULE Spec2Model ----------------------------
(***************************************************************************)
(* A model of QA_Report.py: the reconciliation of raw CSV datasets with    *)
(* the tables ingested into the database.                                  *)
(*                                                                         *)
(* A DataFrame is a record [columns, rows]: columns is the sequence of     *)
(* column labels, rows the sequence of rows, each a sequence of cells as   *)
(* long as columns.  A column label and a text cell are sequences of       *)
(* one-character strings, so that the string operations of the cleaners    *)
(* are computed and not assumed.  A cell is a tagged record: text, an      *)
(* integer, a float or the missing value NaN.  A number is a decimal       *)
(* m * 10^-e, kept normalised (e = 0, or m not a multiple of 10).          *)
(***************************************************************************)
EXTENDS Integers, Sequences, FiniteSets, TLC

VARIABLES
    raw_data,       \* name -> DataFrame, the dict raw_data of __main__
    ingested_data,  \* name -> DataFrame, the dict ingested_data of __main__
    loaded,         \* the datasets as they were before the last operation
    log,            \* the records handed to the logging module, in order
    calls,          \* the validator calls made so far, in order
    pc,             \* the position in the script
    i               \* the index of the running for loop

vars == <<raw_data, ingested_data, loaded, log, calls, pc, i>>

----------------------------------------------------------------------------
(* Bounds of the model.                                                    *)

\* the longest text drawn for a column label or a text cell
MaxLen == 3
\* the most rows drawn for a dataset of the validators' specifications
MaxRows == 2
\* the most columns drawn for a dataset of the column-count specification
MaxCols == 2

----------------------------------------------------------------------------
(* Characters.                                                             *)

Digits == {"0", "1", "2", "3", "4", "5", "6", "7", "8", "9"}

Letters ==
    {"a", "b", "c", "d", "e", "f", "g", "h", "i", "j", "k", "l", "m", "n",
     "o", "p", "q", "r", "s", "t", "u", "v", "w", "x", "y", "z",
     "A", "B", "C", "D", "E", "F", "G", "H", "I", "J", "K", "L", "M", "N",
     "O", "P", "Q", "R", "S", "T", "U", "V", "W", "X", "Y", "Z"}

\* the stray encoding artifact of line 38; a letter to the regex class \w
Artifact == "ï"

\* \s of the regex, and the characters str.strip() removes
IsSpace(c) == c \in {" ", "\t"}

\* \w of the regex: alphanumeric (Unicode) or underscore
IsWord(c) == c \in Letters \cup Digits \cup {"_", Artifact}

\* the characters the class [^\w\s/\-] does not match, so that they are kept
IsKept(c) == IsWord(c) \/ IsSpace(c) \/ c \in {"/", "-"}

----------------------------------------------------------------------------
(* String operations.                                                      *)

RECURSIVE lstrip(_)
lstrip(s) ==
    IF s # <<>> /\ IsSpace(Head(s)) THEN lstrip(Tail(s)) ELSE s

RECURSIVE rstrip(_)
rstrip(s) ==
    IF s # <<>> /\ IsSpace(s[Len(s)]) THEN rstrip(SubSeq(s, 1, Len(s) - 1))
    ELSE s

\* str.strip()
strip(s) == rstrip(lstrip(s))

\* str.replace(ch, '') of a single character
RemoveChar(s, ch) ==
    LET Keep(c) == c # ch IN SelectSeq(s, Keep)

\* str.replace(r'[^\w\s/\-]', '', regex=True)
RemoveUnwanted(s) == SelectSeq(s, IsKept)

\* line 38, for one label: strip, then drop the artifact, then the regex
CleanName(s) == RemoveUnwanted(RemoveChar(strip(s), Artifact))

\* clean_column_names(df)
clean_column_names(df) ==
    [df EXCEPT !.columns = [k \in DOMAIN df.columns |-> CleanName(df.columns[k])]]

----------------------------------------------------------------------------
(* Cells and numbers.                                                      *)

TextCell(s) == [t |-> "str", s |-> s, m |-> 0, e |-> 0]
IntCell(n) == [t |-> "int", s |-> <<>>, m |-> n, e |-> 0]
NaN == [t |-> "nan", s |-> <<>>, m |-> 0, e |-> 0]

\* the decimals m * 10^-e
Decimals == [m : Int, e : Nat]

\* the decimal m * 10^-e without trailing zeros in its fraction
Normalise[m \in Int, e \in Nat] ==
    IF e > 0 /\ m % 10 = 0 THEN Normalise[m \div 10, e - 1]
    ELSE [m |-> m, e |-> e]

FloatCell(m, e) ==
    [t |-> "float", s |-> <<>>, m |-> Normalise[m, e].m, e |-> Normalise[m, e].e]

IsNumber(c) == c.t \in {"int", "float"}

DigitSeq == <<"0", "1", "2", "3", "4", "5", "6", "7", "8", "9">>

DigitVal(c) == (CHOOSE k \in 1..10 : DigitSeq[k] = c) - 1

RECURSIVE Pow10(_)
Pow10(e) == IF e = 0 THEN 1 ELSE 10 * Pow10(e - 1)

\* the value of a sequence of decimal digits (0 for the empty one)
RECURSIVE DigitsVal(_)
DigitsVal(s) ==
    IF s = <<>> THEN 0
    ELSE 10 * DigitsVal(SubSeq(s, 1, Len(s) - 1)) + DigitVal(s[Len(s)])

\* str(n) of a natural number
RECURSIVE NatStr(_)
NatStr(n) ==
    IF n < 10 THEN <<DigitSeq[n + 1]>>
    ELSE NatStr(n \div 10) \o <<DigitSeq[(n % 10) + 1]>>

\* n as exactly k decimal digits, zero-padded on the left
RECURSIVE PadStr(_, _)
PadStr(n, k) ==
    IF k = 0 THEN <<>>
    ELSE PadStr(n \div 10, k - 1) \o <<DigitSeq[(n % 10) + 1]>>

Abs(n) == IF n < 0 THEN -n ELSE n

\* astype(str) of one cell: str() of a Python int or float, "nan" for NaN
\* (the float form is repr's positional one, 1e-4 <= |x| < 1e16)
astype_str(c) ==
    CASE c.t = "str" -> c.s
      [] c.t = "nan" -> <<"n", "a", "n">>
      [] c.t = "int" -> (IF c.m < 0 THEN <<"-">> ELSE <<>>) \o NatStr(Abs(c.m))
      [] c.t = "float" ->
            (IF c.m < 0 THEN <<"-">> ELSE <<>>)
            \o NatStr(Abs(c.m) \div Pow10(c.e))
            \o <<".">>
            \o (IF c.e = 0 THEN <<"0">> ELSE PadStr(Abs(c.m) % Pow10(c.e), c.e))

AllDigits(s) == \A k \in DOMAIN s : s[k] \in Digits

\* the position of the first "." of s, or 0
FirstDot(s) ==
    IF \E k \in DOMAIN s : s[k] = "."
    THEN CHOOSE k \in DOMAIN s : s[k] = "." /\ \A j \in 1..(k - 1) : s[j] # "."
    ELSE 0

\* pd.to_numeric(errors='coerce') of one text: an optional sign, digits with at
\* most one decimal point and at least one digit; anything else is NaN
\* (exponents and the words inf/infinity are outside the texts drawn here)
ParseNumber(s) ==
    LET signed == s # <<>> /\ Head(s) \in {"-", "+"}
        sgn == IF signed /\ Head(s) = "-" THEN -1 ELSE 1
        body == IF signed THEN Tail(s) ELSE s
        dot == FirstDot(body)
        ip == IF dot = 0 THEN body ELSE SubSeq(body, 1, dot - 1)
        fp == IF dot = 0 THEN <<>> ELSE SubSeq(body, dot + 1, Len(body))
    IN  IF AllDigits(ip) /\ AllDigits(fp) /\ Len(ip) + Len(fp) >= 1
        THEN FloatCell(sgn * DigitsVal(ip \o fp), Len(fp))
        ELSE NaN

\* pd.to_numeric(errors='coerce') of one cell of an object column
to_numeric(c) ==
    CASE c.t = "str" -> ParseNumber(c.s)
      [] c.t = "nan" -> NaN
      [] OTHER -> FloatCell(c.m, c.e)

\* a fillna that fills nothing
fillna0_skipped(c) == c

\* fillna(0) of one cell
fillna0(c) == IF c.t = "nan" THEN FloatCell(0, 0) ELSE c

\* astype(float) of one cell of a numeric column: NaN stays NaN
astype_float(c) == IF c.t = "nan" THEN NaN ELSE FloatCell(c.m, c.e)

\* .replace({'-': 0, 'nan': 0}) of one cell: a whole-value match
ReplaceDashNan(s) ==
    IF s = <<"-">> \/ s = <<"n", "a", "n">> THEN IntCell(0) ELSE TextCell(s)

\* lines 46-47 for one cell
CleanNumericCell(c) ==
    LET stage1 == ReplaceDashNan(strip(RemoveChar(astype_str(c), ",")))
    IN  astype_float(fillna0(to_numeric(stage1)))

----------------------------------------------------------------------------
(* DataFrames.                                                             *)

NCols(df) == Len(df.columns)
NRows(df) == Len(df.rows)

\* the positions of the columns labelled name
ColPositions(df, name) == {k \in DOMAIN df.columns : df.columns[k] = name}

\* df[name] selects one column exactly when one column bears the label
HasColumn(df, name) == Cardinality(ColPositions(df, name)) = 1

ColIndex(df, name) == CHOOSE k \in ColPositions(df, name) : TRUE

\* the cells of column name, top to bottom
Column(df, name) ==
    [r \in DOMAIN df.rows |-> df.rows[r][ColIndex(df, name)]]

\* clean_numeric_column(df, column_name): the frame as the call leaves it, and
\* whether the call raised (KeyError on an absent label; a repeated label
\* selects a frame, which has no .str)
clean_numeric_column(df, column_name) ==
    IF ~HasColumn(df, column_name)
    THEN [raised |-> TRUE, df |-> df]
    ELSE LET k == ColIndex(df, column_name)
         IN  [raised |-> FALSE,
              df |-> [df EXCEPT !.rows =
                        [r \in DOMAIN df.rows |->
                            [df.rows[r] EXCEPT ![k] = CleanNumericCell(@)]]]]

\* df.drop(columns=columns_to_drop, inplace=True, errors='ignore') of one frame:
\* every column bearing a listed label goes, with its cells
DropColumns(df, columns_to_drop) ==
    LET Kept(k) == df.columns[k] \notin columns_to_drop
        RECURSIVE Pick(_, _)
        Pick(s, k) ==
            IF k > Len(s) THEN <<>>
            ELSE (IF Kept(k) THEN <<s[k]>> ELSE <<>>) \o Pick(s, k + 1)
    IN  [columns |-> Pick(df.columns, 1),
         rows |-> [r \in DOMAIN df.rows |-> Pick(df.rows[r], 1)]]

\* drop_unnecessary_columns(dataframes, columns_to_drop), on the frames of
\* the dict data whose names are in names
drop_unnecessary_columns(data, names, columns_to_drop) ==
    [n \in DOMAIN data |->
        IF n \in names THEN DropColumns(data[n], columns_to_drop) ELSE data[n]]

----------------------------------------------------------------------------
(* Log records.                                                            *)

LogRec(level, event, name) ==
    [level |-> level, event |-> event, name |-> name,
     diff |-> 0, rows |-> <<>>, columns |-> <<>>, table |-> <<>>]

----------------------------------------------------------------------------
(* validate_row_counts                                                     *)

\* a cell as tuple membership compares it: 10 and 10.0 are equal and hash
\* alike, a text never equals a number
CellKey(c) == IF IsNumber(c) THEN [c EXCEPT !.t = "num"] ELSE c

\* apply(tuple, 1) of one row
RowTuple(row) == [k \in DOMAIN row |-> CellKey(row[k])]

RowTuples(df) == {RowTuple(df.rows[r]) : r \in DOMAIN df.rows}

\* the selection without its negation: the rows that are in the other frame
RowsNotIn_unnegated(df, other) ==
    LET Present(row) == RowTuple(row) \in RowTuples(other)
    IN  SelectSeq(df.rows, Present)

\* df[~df.apply(tuple, 1).isin(other.apply(tuple, 1))]
RowsNotIn(df, other) ==
    LET Absent(row) == RowTuple(row) \notin RowTuples(other)
    IN  SelectSeq(df.rows, Absent)

\* the rows DataFrame.head() shows
HeadRows == 5

head(rows) == SubSeq(rows, 1, IF Len(rows) < HeadRows THEN Len(rows) ELSE HeadRows)

\* validate_row_counts(raw_df, ingested_df, file_name): the records it logs
validate_row_counts(raw_df, ingested_df, file_name) ==
    IF NRows(raw_df) = NRows(ingested_df)
    THEN << LogRec("INFO", "row_match", file_name) >>
    ELSE << [LogRec("ERROR", "row_mismatch", file_name)
                EXCEPT !.diff = NRows(raw_df) - NRows(ingested_df)],
            [LogRec("ERROR", "raw_not_in_ingested", file_name)
                EXCEPT !.rows = head(RowsNotIn(raw_df, ingested_df))],
            [LogRec("ERROR", "ingested_not_in_raw", file_name)
                EXCEPT !.rows = head(RowsNotIn(ingested_df, raw_df))] >>

----------------------------------------------------------------------------
(* validate_column_counts                                                  *)

\* a validator that takes the ingested labels whatever the counts are
validate_column_counts_unconditional(raw_df, ingested_df, file_name) ==
    [raw_df |-> [raw_df EXCEPT !.columns = ingested_df.columns],
     log |-> IF NCols(raw_df) = NCols(ingested_df)
             THEN << LogRec("INFO", "col_match", file_name) >>
             ELSE << LogRec("ERROR", "col_mismatch", file_name) >>]

\* validate_column_counts(raw_df, ingested_df, file_name): the raw frame as the
\* call leaves it, and the records it logs
validate_column_counts(raw_df, ingested_df, file_name) ==
    IF NCols(raw_df) = NCols(ingested_df)
    THEN [raw_df |-> [raw_df EXCEPT !.columns = ingested_df.columns],
          log |-> << LogRec("INFO", "col_match", file_name) >>]
    ELSE [raw_df |-> raw_df,
          log |-> << LogRec("ERROR", "col_mismatch", file_name),
                     [LogRec("ERROR", "raw_columns", file_name)
                        EXCEPT !.columns = raw_df.columns],
                     [LogRec("ERROR", "ingested_columns", file_name)
                        EXCEPT !.columns = ingested_df.columns] >>]

----------------------------------------------------------------------------
(* validate_grouped_data                                                   *)

\* the float arithmetic of the grouped tables, on decimals
Dec(m, e) == Normalise[m, e]

MaxOf(a, b) == IF a < b THEN b ELSE a

DecAdd[a \in Decimals, b \in Decimals] ==
    Normalise[a.m * Pow10(MaxOf(a.e, b.e) - a.e) + b.m * Pow10(MaxOf(a.e, b.e) - b.e),
              MaxOf(a.e, b.e)]

DecSub[a \in Decimals, b \in Decimals] == DecAdd[a, Normalise[-b.m, b.e]]

DecAbs[a \in Decimals] == Normalise[Abs(a.m), a.e]

\* the comparison with the boundary on the wrong side: a >= tolerance
DecGT_inclusive(a, tolerance) == a.m >= tolerance * Pow10(a.e)

\* a > tolerance for a decimal a and an integer tolerance
DecGT(a, tolerance) == a.m > tolerance * Pow10(a.e)

\* the label of the column line 104 adds
RowCountLabel == <<"r", "o", "w", "_", "c", "o", "u", "n", "t">>

\* the rows of df in the group of key (groupby drops the rows without a key)
GroupRows(df, group_field, key) ==
    LET g == ColIndex(df, group_field)
        InGroup(row) == row[g].t # "nan" /\ CellKey(row[g]) = key
    IN  SelectSeq(df.rows, InGroup)

\* the group keys of df, the index of its grouped table
GroupKeys(df, group_field) ==
    LET g == ColIndex(df, group_field)
    IN  {CellKey(df.rows[r][g]) : r \in {x \in DOMAIN df.rows : df.rows[x][g].t # "nan"}}

\* 'sum' of one field over the rows of a group: NaN is skipped
RECURSIVE SumCells(_, _)
SumCells(rows, k) ==
    IF rows = <<>> THEN Dec(0, 0)
    ELSE LET c == Head(rows)[k]
         IN  DecAdd[IF IsNumber(c) THEN Dec(c.m, c.e) ELSE Dec(0, 0),
                    SumCells(Tail(rows), k)]

\* one row of df.groupby(group_field).agg({field: 'sum' ...}) with row_count
Grouped(df, group_field, numeric_fields, key) ==
    LET rows == GroupRows(df, group_field, key)
        fields == {numeric_fields[j] : j \in DOMAIN numeric_fields}
    IN  [q \in fields \cup {RowCountLabel} |->
            IF q = RowCountLabel THEN Dec(Len(rows), 0)
            ELSE SumCells(rows, ColIndex(df, q))]

\* whether lines 103-104 (or 106-107, or the subtraction of line 109) raise on
\* df: the group field or a numeric field is no column of it, or a summed cell
\* of some group is text, which has no difference
AggregationRaises(df, group_field, numeric_fields) ==
    \/ ~HasColumn(df, group_field)
    \/ \E j \in DOMAIN numeric_fields : ~HasColumn(df, numeric_fields[j])
    \/ \E j \in DOMAIN numeric_fields : \E r \in DOMAIN df.rows :
          /\ df.rows[r][ColIndex(df, group_field)].t # "nan"
          /\ df.rows[r][ColIndex(df, numeric_fields[j])].t = "str"

\* a subtraction that keeps only the groups both sides have
Differences_inner(raw_df, ingested_df, group_field, fields) ==
    [key \in GroupKeys(raw_df, group_field) \cap GroupKeys(ingested_df, group_field) |->
        [q \in {fields[j] : j \in DOMAIN fields} \cup {RowCountLabel} |->
            DecAbs[DecSub[Grouped(raw_df, group_field, fields, key)[q],
                          Grouped(ingested_df, group_field, fields, key)[q]]]]]

\* raw_grouped.subtract(ingested_grouped, fill_value=0).abs(): one row per
\* group of either side, a group absent from a side counting as zeros there
Differences(raw_df, ingested_df, group_field, numeric_fields) ==
    LET rk == GroupKeys(raw_df, group_field)
        ik == GroupKeys(ingested_df, group_field)
        fields == {numeric_fields[j] : j \in DOMAIN numeric_fields}
        Side(df, keys, key, q) ==
            IF key \in keys THEN Grouped(df, group_field, numeric_fields, key)[q]
            ELSE Dec(0, 0)
    IN  [key \in rk \cup ik |->
            [q \in fields \cup {RowCountLabel} |->
                DecAbs[DecSub[Side(raw_df, rk, key, q),
                              Side(ingested_df, ik, key, q)]]]]

\* differences[(differences > tol).any(axis=1)]
ExceedingTol(differences, tolerance) ==
    LET Rows[d \in {differences}] ==
            [key \in {k \in DOMAIN d :
                        \E q \in DOMAIN d[k] : DecGT(d[k][q], tolerance)} |-> d[key]]
    IN  Rows[differences]

\* the try block of lines 103-115: whether it raised, and the records it
\* logged
GroupedTry(raw_df, ingested_df, file_name, group_field, numeric_fields, tolerance) ==
    IF \/ AggregationRaises(raw_df, group_field, numeric_fields)
       \/ AggregationRaises(ingested_df, group_field, numeric_fields)
    THEN [raised |-> TRUE, log |-> <<>>]
    ELSE LET differences_exceeding_tol ==
                ExceedingTol(Differences(raw_df, ingested_df, group_field,
                                         numeric_fields), tolerance)
         IN  [raised |-> FALSE,
              log |-> IF DOMAIN differences_exceeding_tol # {}
                      THEN << [LogRec("ERROR", "grouped_mismatch", file_name)
                                EXCEPT !.table = differences_exceeding_tol] >>
                      ELSE << LogRec("INFO", "grouped_match", file_name) >>]

\* a validator without its handler: what the try block raises goes up
validate_grouped_data_uncaught(raw_df, ingested_df, file_name, group_field, fields, tolerance) ==
    GroupedTry(raw_df, ingested_df, file_name, group_field, fields, tolerance)

\* validate_grouped_data(...): the try block, and the handler of lines 116-117
\* for whatever it raises; what is left to go up to the caller, and the
\* records logged
validate_grouped_data(raw_df, ingested_df, file_name, group_field, numeric_fields, tolerance) ==
    LET r == GroupedTry(raw_df, ingested_df, file_name, group_field,
                        numeric_fields, tolerance)
    IN  IF r.raised
        THEN [raised |-> FALSE,
              log |-> r.log \o << LogRec("ERROR", "grouped_error", file_name) >>]
        ELSE r

----------------------------------------------------------------------------
(* The constants of __main__.                                              *)

\* the keys of file_paths and of db_queries, in insertion order
RawOrder == <<"budget", "costs", "crm", "revenue", "arr">>
DbOrder == <<"budget", "costs", "crm", "revenue", "arr", "jira">>

RawNames == {RawOrder[k] : k \in DOMAIN RawOrder}
DbNames == {DbOrder[k] : k \in DOMAIN DbOrder}

DateField == <<"d", "a", "t", "e", "_", "f", "i", "e", "l", "d">>
Revenue == <<"R", "e", "v", "e", "n", "u", "e">>
Cost == <<"C", "o", "s", "t">>
Id == <<"i", "d">>
CreatedAt == <<"c", "r", "e", "a", "t", "e", "d", "A", "t">>
UpdatedAt == <<"u", "p", "d", "a", "t", "e", "d", "A", "t">>

\* the list of line 171 and the list of line 172
PrunedNames == {"budget", "costs", "crm", "revenue", "arr"}
columns_to_drop == {Id, CreatedAt, UpdatedAt}

\* the dict numeric_fields of lines 183-187
numeric_fields ==
    [n \in {"revenue", "costs", "arr"} |->
        IF n = "costs" THEN <<Cost>> ELSE <<Revenue>>]

\* tol=1 of line 192
tol == 1

----------------------------------------------------------------------------
(* Inputs.                                                                 *)

\* every text of at most n characters of the set S
Texts(S, n) == UNION {[1..k -> S] : k \in 0..n}

\* every sequence of at most n elements of S
SeqsUpTo(S, n) == UNION {[1..k -> S] : k \in 0..n}

Frame(columns, rows) == [columns |-> columns, rows |-> rows]

NoData == [n \in {} |-> Frame(<<>>, <<>>)]

Snapshot == [raw |-> raw_data, ingested |-> ingested_data]

Call(fn, name, arg) == [fn |-> fn, name |-> name, arg |-> arg]

KeyA == TextCell(<<"A">>)
KeyB == TextCell(<<"B">>)

----------------------------------------------------------------------------
(* clean_column_names on its own: a frame with any label, cleaned twice.   *)

\* a letter, a digit, the underscore, whitespace, slash, hyphen, the
\* artifact and a punctuation mark
NameChars == {"a", "1", "_", " ", "/", "-", Artifact, "!"}

InitNames ==
    /\ raw_data \in {[n \in {"revenue"} |-> Frame(<<c, DateField>>, <<>>)] :
                        c \in Texts(NameChars, MaxLen)}
    /\ ingested_data = NoData
    /\ loaded = [raw |-> NoData, ingested |-> NoData]
    /\ log = <<>>
    /\ calls = <<>>
    /\ pc = "names"
    /\ i = 0

\* raw_data[df_name] = clean_column_names(df), once more
CleanNamesAgain ==
    /\ pc = "names"
    /\ i < 2
    /\ loaded' = Snapshot
    /\ raw_data' = [n \in DOMAIN raw_data |-> clean_column_names(raw_data[n])]
    /\ i' = i + 1
    /\ UNCHANGED <<ingested_data, log, calls, pc>>

NextNames == CleanNamesAgain

SpecNames == InitNames /\ [][NextNames]_vars

\* C1: applying clean_column_names twice yields exactly the column names that
\* applying it once yields, whatever the names were.
C1_Idempotent ==
    (pc = "names" /\ i = 2) => raw_data["revenue"].columns = loaded.raw["revenue"].columns

----------------------------------------------------------------------------
(* clean_numeric_column on its own: a column of the five inputs the        *)
(* documentation names, below one cell of any drawn content.               *)

\* digits, the thousands separator, the dash, whitespace, the decimal point
\* and the letters of "nan"
NumChars == {"1", "2", ",", "-", " ", ".", "n", "a"}

NamedTexts ==
    << <<"1", ",", "2", "3", "4">>, <<"-">>, <<"n", "a", "n">>, <<>>,
       <<"a", "b", "c">> >>

\* what the documentation says the named inputs become
NamedValues ==
    << FloatCell(1234, 0), FloatCell(0, 0), FloatCell(0, 0), FloatCell(0, 0),
       FloatCell(0, 0) >>

\* the cells a loaded column can hold: text, integers, floats, NaN
DrawnCells ==
    {TextCell(s) : s \in Texts(NumChars, MaxLen)}
    \cup {IntCell(-12), IntCell(0), IntCell(7), FloatCell(15, 1),
          FloatCell(-5, 2), FloatCell(1234, 0), NaN}

NumericFrame(c) ==
    Frame(<<DateField, Revenue>>,
          <<<<KeyA, c>>>> \o [k \in DOMAIN NamedTexts |-> <<KeyB, TextCell(NamedTexts[k])>>])

InitNumeric ==
    /\ raw_data \in {[n \in {"revenue"} |-> NumericFrame(c)] : c \in DrawnCells}
    /\ ingested_data = NoData
    /\ loaded = [raw |-> NoData, ingested |-> NoData]
    /\ log = <<>>
    /\ calls = <<>>
    /\ pc = "numeric"
    /\ i = 0

\* clean_numeric_column(df, column_name) on the dataset, for a label it has
\* or one it has not; an exception goes up to the caller
CleanNumeric ==
    /\ pc = "numeric"
    /\ \E column_name \in {Revenue, DateField, Cost} :
          LET r == clean_numeric_column(raw_data["revenue"], column_name)
          IN  /\ raw_data' = [raw_data EXCEPT !["revenue"] = r.df]
              /\ calls' = Append(calls, Call("clean_numeric_column", "revenue", column_name))
              /\ pc' = IF r.raised THEN "raised" ELSE "cleaned"
    /\ loaded' = Snapshot
    /\ UNCHANGED <<ingested_data, log, i>>

NextNumeric == CleanNumeric

SpecNumeric == InitNumeric /\ [][NextNumeric]_vars

\* C2: clean_numeric_column never fails on a column of the dataset, leaves in
\* the dataset it was passed a column of floats only, with no missing and no
\* unparsed value, maps "1,234", "-", "nan", "" and "abc" to 1234.0, 0.0, 0.0,
\* 0.0 and 0.0, and touches no other column.
C2_NumericTotal ==
    \A k \in DOMAIN calls :
        HasColumn(loaded.raw["revenue"], calls[k].arg) =>
            LET df == raw_data["revenue"]
                before == loaded.raw["revenue"]
                col == Column(df, calls[k].arg)
            IN  /\ pc = "cleaned"
                /\ df.columns = before.columns
                /\ NRows(df) = NRows(before)
                /\ \A r \in DOMAIN col : col[r].t = "float"
                /\ calls[k].arg = Revenue =>
                      \A n \in DOMAIN NamedTexts : col[n + 1] = NamedValues[n]
                /\ \A c \in {Revenue, DateField} \ {calls[k].arg} :
                      Column(df, c) = Column(before, c)

\* a column was cleaned whose first cell was no plain number: it is a number now
C2_Witness ==
    /\ pc = "cleaned"
    /\ calls[1].arg = Revenue
    /\ loaded.raw["revenue"].rows[1][2].t \in {"str", "nan"}
    /\ to_numeric(loaded.raw["revenue"].rows[1][2]).t = "nan"
    /\ raw_data["revenue"].rows[1][2] = FloatCell(0, 0)
    /\ raw_data["revenue"].rows[2][2] = FloatCell(1234, 0)

----------------------------------------------------------------------------
(* validate_row_counts on its own: any two frames of the same two columns. *)

RowPool == {<<k, v>> : k \in {KeyA, KeyB}, v \in {IntCell(10), IntCell(20)}}

RowFrames == {Frame(<<DateField, Revenue>>, rows) : rows \in SeqsUpTo(RowPool, MaxRows)}

InitRows ==
    /\ raw_data \in {[n \in {"revenue"} |-> f] : f \in RowFrames}
    /\ ingested_data \in {[n \in {"revenue"} |-> f] : f \in RowFrames}
    /\ loaded = [raw |-> NoData, ingested |-> NoData]
    /\ log = <<>>
    /\ calls = <<>>
    /\ pc = "rows"
    /\ i = 0

ValidateRows ==
    /\ pc = "rows"
    /\ log' = log \o validate_row_counts(raw_data["revenue"], ingested_data["revenue"], "revenue")
    /\ calls' = Append(calls, Call("validate_row_counts", "revenue", <<>>))
    /\ loaded' = Snapshot
    /\ pc' = "rows_done"
    /\ UNCHANGED <<raw_data, ingested_data, i>>

NextRows == ValidateRows

SpecRows == InitRows /\ [][NextRows]_vars

\* the sequence s without its element at position p
RemoveAt(s, p) == SubSeq(s, 1, p - 1) \o SubSeq(s, p + 1, Len(s))

\* big is small plus one additional row, at position p of big
OneMoreAt(big, small, p) ==
    /\ big.columns = small.columns
    /\ p \in DOMAIN big.rows
    /\ RemoveAt(big.rows, p) = small.rows

\* the log of a row mismatch with the given difference and examples
RowLog(diff, raw_only, ingested_only) ==
    /\ Len(log) = 3
    /\ log[1].level = "ERROR" /\ log[1].event = "row_mismatch" /\ log[1].diff = diff
    /\ log[2].level = "ERROR" /\ log[2].event = "raw_not_in_ingested"
    /\ log[2].rows = raw_only
    /\ log[3].level = "ERROR" /\ log[3].event = "ingested_not_in_raw"
    /\ log[3].rows = ingested_only

\* the example rows of the side holding the additional row: the row itself,
\* unless a row of the other side equals it in every column
ExampleOf(big, small, p) ==
    IF RowTuple(big.rows[p]) \in RowTuples(small) THEN <<>> ELSE <<big.rows[p]>>

\* C3 as stated: when one dataset is the other plus one additional row, the
\* logged difference is raw minus ingested (+1 or -1), the additional row is in
\* the example output of the side holding it and the other example output is
\* empty.
C3_AdditionalRowShown ==
    pc = "rows_done" =>
        LET raw == raw_data["revenue"]
            ing == ingested_data["revenue"]
        IN  /\ \A p \in DOMAIN raw.rows :
                  OneMoreAt(raw, ing, p) => RowLog(1, <<raw.rows[p]>>, <<>>)
            /\ \A p \in DOMAIN ing.rows :
                  OneMoreAt(ing, raw, p) => RowLog(-1, <<>>, <<ing.rows[p]>>)

\* C3 amended: the logged difference is raw minus ingested (+1 or -1) and the
\* example output of the other side is empty; the additional row is the one
\* example of the side holding it exactly when no row of the other dataset
\* equals it in every column, and that example output is empty too otherwise.
C3_AdditionalRowShownUnlessDuplicate ==
    pc = "rows_done" =>
        LET raw == raw_data["revenue"]
            ing == ingested_data["revenue"]
        IN  /\ \A p \in DOMAIN raw.rows :
                  OneMoreAt(raw, ing, p) => RowLog(1, ExampleOf(raw, ing, p), <<>>)
            /\ \A p \in DOMAIN ing.rows :
                  OneMoreAt(ing, raw, p) => RowLog(-1, <<>>, ExampleOf(ing, raw, p))

\* the ingested dataset holds a second copy of a raw row: the difference is -1
\* and no example row is shown on either side
C3_Witness ==
    /\ pc = "rows_done"
    /\ \E p \in DOMAIN ingested_data["revenue"].rows :
          /\ OneMoreAt(ingested_data["revenue"], raw_data["revenue"], p)
          /\ RowTuple(ingested_data["revenue"].rows[p]) \in RowTuples(raw_data["revenue"])
    /\ log[1].diff = -1
    /\ log[2].rows = <<>> /\ log[3].rows = <<>>

----------------------------------------------------------------------------
(* validate_column_counts on its own: two frames of any labels, one row.   *)

LabelPool == {DateField, Revenue, Cost}

\* a frame of the given labels with one row, the cell of column k holding k
\* on the raw side and 10 * k on the ingested side
ColFrame(columns, scale) ==
    Frame(columns, << [k \in DOMAIN columns |-> IntCell(scale * k)] >>)

InitCols ==
    /\ raw_data \in {[n \in {"revenue"} |-> ColFrame(c, 1)] :
                        c \in SeqsUpTo(LabelPool, MaxCols)}
    /\ ingested_data \in {[n \in {"revenue"} |-> ColFrame(c, 10)] :
                        c \in SeqsUpTo(LabelPool, MaxCols)}
    /\ loaded = [raw |-> NoData, ingested |-> NoData]
    /\ log = <<>>
    /\ calls = <<>>
    /\ pc = "cols"
    /\ i = 0

ValidateCols ==
    /\ pc = "cols"
    /\ LET r == validate_column_counts(raw_data["revenue"], ingested_data["revenue"], "revenue")
       IN  /\ raw_data' = [raw_data EXCEPT !["revenue"] = r.raw_df]
           /\ log' = log \o r.log
    /\ calls' = Append(calls, Call("validate_column_counts", "revenue", <<>>))
    /\ loaded' = Snapshot
    /\ pc' = "cols_done"
    /\ UNCHANGED <<ingested_data, i>>

NextCols == ValidateCols

SpecCols == InitCols /\ [][NextCols]_vars

\* C4: validate_column_counts renames exactly when the counts match: with equal
\* counts the raw labels become the ingested labels, position by position, and
\* one info record is logged; with different counts the raw labels stay and
\* errors are logged; the ingested labels and every cell stay in both cases.
C4_RenameIffCountsMatch ==
    pc = "cols_done" =>
        LET raw0 == loaded.raw["revenue"]
            ing0 == loaded.ingested["revenue"]
            raw == raw_data["revenue"]
        IN  /\ NCols(raw0) = NCols(ing0) =>
                  /\ raw.columns = ing0.columns
                  /\ Len(log) = 1
                  /\ log[1].level = "INFO" /\ log[1].event = "col_match"
            /\ NCols(raw0) # NCols(ing0) =>
                  /\ raw.columns = raw0.columns
                  /\ Len(log) >= 1
                  /\ \A k \in DOMAIN log : log[k].level = "ERROR"
                  /\ log[1].event = "col_mismatch"
            /\ ingested_data["revenue"] = ing0
            /\ raw.rows = raw0.rows

\* the counts matched and the raw labels, which differed, were overwritten
C4_WitnessRenamed ==
    /\ pc = "cols_done"
    /\ NCols(loaded.raw["revenue"]) = 2
    /\ loaded.raw["revenue"].columns # loaded.ingested["revenue"].columns
    /\ raw_data["revenue"].columns = ingested_data["revenue"].columns
    /\ log[1].event = "col_match"

----------------------------------------------------------------------------
(* validate_grouped_data on its own: any two frames of a group field and   *)
(* one numeric field, and a few frames that make the aggregation fail.     *)

GroupedPool ==
    {<<k, v>> : k \in {KeyA, KeyB}, v \in {IntCell(1), IntCell(2), FloatCell(25, 1)}}

RegularFrames ==
    {Frame(<<DateField, Revenue>>, rows) : rows \in SeqsUpTo(GroupedPool, MaxRows)}

\* no group field; no numeric field; a text cell to sum; a row without a key
IrregularFrames ==
    {Frame(<<Revenue>>, <<<<IntCell(2)>>>>),
     Frame(<<DateField>>, <<<<KeyA>>>>),
     Frame(<<DateField, Revenue>>, <<<<KeyA, TextCell(<<"1", ",", "2">>)>>>>),
     Frame(<<DateField, Revenue>>, <<<<NaN, IntCell(2)>>, <<KeyA, NaN>>>>)}

GroupedFrames == RegularFrames \cup IrregularFrames

InitGrouped ==
    /\ raw_data \in {[n \in {"revenue"} |-> f] : f \in GroupedFrames}
    /\ ingested_data \in {[n \in {"revenue"} |-> f] : f \in GroupedFrames}
    /\ loaded = [raw |-> NoData, ingested |-> NoData]
    /\ log = <<>>
    /\ calls = <<>>
    /\ pc = "grouped"
    /\ i = 0

\* validate_grouped_data(raw_df, ingested_df, name, 'date_field', ['Revenue'],
\* tol) with a tolerance of 1 or 2; an exception goes up to the caller
ValidateGroupedAlone ==
    /\ pc = "grouped"
    /\ \E tolerance \in {tol, tol + 1} :
          LET r == validate_grouped_data(raw_data["revenue"], ingested_data["revenue"],
                                         "revenue", DateField, <<Revenue>>, tolerance)
          IN  /\ log' = log \o r.log
              /\ calls' = Append(calls, Call("validate_grouped_data", "revenue", tolerance))
              /\ pc' = IF r.raised THEN "raised" ELSE "grouped_done"
    /\ loaded' = Snapshot
    /\ UNCHANGED <<raw_data, ingested_data, i>>

NextGrouped == ValidateGroupedAlone

SpecGrouped == InitGrouped /\ [][NextGrouped]_vars

\* the value of a drawn cell in tenths (a missing value adds nothing to a sum)
Tenths(c) == IF IsNumber(c) THEN c.m * Pow10(1 - c.e) ELSE 0

\* the rows of df that bear the group key
RowsOfKey(df, key) ==
    {r \in DOMAIN df.rows : df.rows[r][ColIndex(df, DateField)] = key}

\* the sum of Revenue over the group key of df, in tenths
RECURSIVE SumTenths(_, _)
SumTenths(df, rs) ==
    IF rs = {} THEN 0
    ELSE LET r == CHOOSE x \in rs : TRUE
         IN  Tenths(df.rows[r][ColIndex(df, Revenue)]) + SumTenths(df, rs \ {r})

KeysOf(df) == {key \in {KeyA, KeyB} : RowsOfKey(df, key) # {}}

\* some compared quantity of the group differs by more than the tolerance
OverTolerance(raw, ing, key, tolerance) ==
    \/ Abs(SumTenths(raw, RowsOfKey(raw, key)) - SumTenths(ing, RowsOfKey(ing, key)))
          > 10 * tolerance
    \/ Abs(Cardinality(RowsOfKey(raw, key)) - Cardinality(RowsOfKey(ing, key)))
          > tolerance

\* the validator went through its comparison and logged its one record
Compared ==
    /\ pc = "grouped_done"
    /\ Len(log) = 1
    /\ log[1].event \in {"grouped_match", "grouped_mismatch"}

Reported(key) == log[1].event = "grouped_mismatch" /\ key \in DOMAIN log[1].table

\* C5: a group is reported as a mismatch if and only if the sum of the numeric
\* field or the row count of the group differs by strictly more than the
\* tolerance; a mismatch is logged exactly when there is such a group, and the
\* logged table holds those groups and no other.
C5_MismatchIffAboveTolerance ==
    (pc = "grouped_done" /\ log[1].event # "grouped_error") =>
        LET raw == raw_data["revenue"]
            ing == ingested_data["revenue"]
            over == {key \in KeysOf(raw) \cup KeysOf(ing) :
                        OverTolerance(raw, ing, key, calls[1].arg)}
        IN  /\ Compared
            /\ log[1].event = "grouped_mismatch" <=> over # {}
            /\ log[1].level = (IF over # {} THEN "ERROR" ELSE "INFO")
            /\ \A key \in {KeyA, KeyB} : Reported(key) <=> key \in over

\* with tolerance 1, group A differs by exactly 1 and group B by 1.5: the
\* table logged holds B alone
C5_Witness ==
    /\ Compared
    /\ calls[1].arg = 1
    /\ raw_data["revenue"].rows = <<<<KeyA, IntCell(1)>>, <<KeyB, IntCell(1)>>>>
    /\ ingested_data["revenue"].rows = <<<<KeyA, IntCell(2)>>, <<KeyB, FloatCell(25, 1)>>>>
    /\ DOMAIN log[1].table = {KeyB}

\* C9: a group present in one dataset only is compared against zero: it takes
\* no exception path, and it is reported exactly when its own sum in absolute
\* value, or its own row count, exceeds the tolerance.
C9_OuterJoinZeroFill ==
    (pc \in {"grouped_done", "raised"}
     /\ raw_data["revenue"] \in RegularFrames
     /\ ingested_data["revenue"] \in RegularFrames) =>
        LET raw == raw_data["revenue"]
            ing == ingested_data["revenue"]
            Own(df, key) ==
                \/ Abs(SumTenths(df, RowsOfKey(df, key))) > 10 * calls[1].arg
                \/ Cardinality(RowsOfKey(df, key)) > calls[1].arg
        IN  /\ Compared
            /\ \A key \in KeysOf(raw) \ KeysOf(ing) : Reported(key) <=> Own(raw, key)
            /\ \A key \in KeysOf(ing) \ KeysOf(raw) : Reported(key) <=> Own(ing, key)

\* group B is in the raw dataset only, with a sum of 2.5, and is reported;
\* group A is in the ingested dataset only, with a sum of 1, and is not
C9_Witness ==
    /\ Compared
    /\ calls[1].arg = 1
    /\ raw_data["revenue"].rows = <<<<KeyB, FloatCell(25, 1)>>>>
    /\ ingested_data["revenue"].rows = <<<<KeyA, IntCell(1)>>>>
    /\ DOMAIN log[1].table = {KeyB}

----------------------------------------------------------------------------
(* The script of __main__ (lines 133-195).                                 *)

Stamp == TextCell(<<"t">>)

\* the raw files drawn for a dataset summed on field: the clean file; the
\* same rows under labels as exports write them (artifact, blanks,
\* punctuation, another name for the group field); a file with text amounts
SummedRaw(field) ==
    {Frame(<<DateField, field>>, <<<<KeyA, IntCell(10)>>, <<KeyB, IntCell(20)>>>>),
     Frame(<<<<Artifact, "D", "a", "t", "e">>, <<" ">> \o field \o <<"!">>>>,
           <<<<KeyA, IntCell(10)>>, <<KeyB, IntCell(20)>>>>),
     Frame(<<DateField, field>>, <<<<KeyA, TextCell(<<"1", ",", "2", "3", "4">>)>>>>)}

\* the tables drawn for it: the clean file with the metadata columns; a table
\* whose sums are 2 off for group B; the text amounts; a table with no group
\* field
SummedIngested(field) ==
    {Frame(<<Id, DateField, field, CreatedAt, UpdatedAt>>,
           <<<<IntCell(1), KeyA, IntCell(10), Stamp, Stamp>>,
             <<IntCell(2), KeyB, IntCell(20), Stamp, Stamp>>>>),
     Frame(<<<<" ", "i", "d">>, DateField, field>>,
           <<<<IntCell(1), KeyA, IntCell(10)>>, <<IntCell(2), KeyB, IntCell(22)>>>>),
     Frame(<<Id, DateField, field>>,
           <<<<IntCell(1), KeyA, TextCell(<<"1", ",", "2", "3", "4">>)>>>>),
     Frame(<<Id, field>>, <<<<IntCell(1), IntCell(10)>>, <<IntCell(2), IntCell(20)>>>>)}

Dept == <<"D", "e", "p", "t">>
Amt == <<"A", "m", "t">>

\* the file drawn for a dataset that is not summed (budget, crm)
OtherRaw == {Frame(<<Dept, Amt>>, <<<<KeyA, IntCell(10)>>>>)}

\* the tables drawn for budget: the file with a metadata column, and a table
\* with one row more
BudgetIngested ==
    {Frame(<<Id, Dept, Amt>>, <<<<IntCell(1), KeyA, IntCell(10)>>>>),
     Frame(<<Id, Dept, Amt>>,
           <<<<IntCell(1), KeyA, IntCell(10)>>, <<IntCell(2), KeyB, IntCell(20)>>>>)}

\* the table drawn for crm: the file with all three metadata columns
CrmIngested ==
    {Frame(<<Id, Dept, Amt, CreatedAt, UpdatedAt>>,
           <<<<IntCell(1), KeyA, IntCell(10), Stamp, Stamp>>>>)}

JiraIngested == {Frame(<<Id, <<"K", "e", "y">>>>, <<<<IntCell(1), KeyA>>>>)}

\* the dict of the given names, in order, with the given frames
Dict(order, frames) ==
    [n \in {order[k] : k \in DOMAIN order} |->
        frames[CHOOSE k \in DOMAIN order : order[k] = n]]

Init ==
    /\ raw_data = NoData
    /\ ingested_data = NoData
    /\ loaded = [raw |-> NoData, ingested |-> NoData]
    /\ log = << LogRec("INFO", "starting", "") >>
    /\ calls = <<>>
    /\ pc = "load_raw"
    /\ i = 0

\* line 159: raw_data = load_data_from_files(file_paths, encoding='latin1')
LoadRaw ==
    /\ pc = "load_raw"
    /\ \E b \in OtherRaw, c \in SummedRaw(Cost), m \in OtherRaw,
          r \in SummedRaw(Revenue), a \in SummedRaw(Revenue) :
          raw_data' = Dict(RawOrder, <<b, c, m, r, a>>)
    /\ pc' = "load_ingested"
    /\ UNCHANGED <<ingested_data, loaded, log, calls, i>>

\* line 160: ingested_data = load_data_from_database(engine, db_queries)
LoadIngested ==
    /\ pc = "load_ingested"
    /\ \E b \in BudgetIngested, c \in SummedIngested(Cost), m \in CrmIngested,
          r \in SummedIngested(Revenue), a \in SummedIngested(Revenue),
          j \in JiraIngested :
          /\ ingested_data' = Dict(DbOrder, <<b, c, m, r, a, j>>)
          /\ loaded' = [raw |-> raw_data, ingested |-> ingested_data']
    /\ pc' = "clean_raw"
    /\ UNCHANGED <<raw_data, log, calls, i>>

\* lines 138, 159, 160: the connection or a load raises, and nothing catches it
LoadFails ==
    /\ pc \in {"load_raw", "load_ingested"}
    /\ pc' = "crashed"
    /\ UNCHANGED <<raw_data, ingested_data, loaded, log, calls, i>>

\* lines 163-164
CleanRawNames ==
    /\ pc = "clean_raw"
    /\ raw_data' = [n \in DOMAIN raw_data |-> clean_column_names(raw_data[n])]
    /\ pc' = "clean_ingested"
    /\ UNCHANGED <<ingested_data, loaded, log, calls, i>>

\* lines 166-167
CleanIngestedNames ==
    /\ pc = "clean_ingested"
    /\ ingested_data' =
          [n \in DOMAIN ingested_data |-> clean_column_names(ingested_data[n])]
    /\ pc' = "drop"
    /\ UNCHANGED <<raw_data, loaded, log, calls, i>>

\* lines 170-173
DropMetadata ==
    /\ pc = "drop"
    /\ ingested_data' =
          drop_unnecessary_columns(ingested_data, PrunedNames, columns_to_drop)
    /\ pc' = "counts"
    /\ i' = 1
    /\ UNCHANGED <<raw_data, loaded, log, calls>>

\* a loop that skips the column validation of a dataset whose rows mismatch
ValidateCounts_rows_first ==
    /\ pc = "counts"
    /\ \E name \in {RawOrder[i]} :
          \E rows \in {validate_row_counts(raw_data[name], ingested_data[name], name)} :
             \E cols \in {validate_column_counts(raw_data[name], ingested_data[name], name)} :
                IF rows[1].level = "ERROR"
                THEN /\ log' = log \o rows
                     /\ calls' = Append(calls, Call("validate_row_counts", name, <<>>))
                     /\ UNCHANGED raw_data
                ELSE /\ log' = log \o rows \o cols.log
                     /\ raw_data' = [raw_data EXCEPT ![name] = cols.raw_df]
                     /\ calls' = calls \o << Call("validate_row_counts", name, <<>>),
                                            Call("validate_column_counts", name, <<>>) >>
    /\ IF i < Len(RawOrder)
       THEN i' = i + 1 /\ pc' = pc
       ELSE i' = 1 /\ pc' = "grouped"
    /\ UNCHANGED <<ingested_data, loaded>>

\* lines 176-180, one turn of the loop: both count validations of the dataset
\* RawOrder[i], if ingested_data.get(name) is not None
ValidateCounts ==
    /\ pc = "counts"
    /\ LET name == RawOrder[i]
       IN  IF name \in DOMAIN ingested_data
           THEN LET rows == validate_row_counts(raw_data[name], ingested_data[name], name)
                    cols == validate_column_counts(raw_data[name], ingested_data[name], name)
                IN  /\ log' = log \o rows \o cols.log
                    /\ raw_data' = [raw_data EXCEPT ![name] = cols.raw_df]
                    /\ calls' = calls \o << Call("validate_row_counts", name, <<>>),
                                           Call("validate_column_counts", name, <<>>) >>
           ELSE UNCHANGED <<log, raw_data, calls>>
    /\ IF i < Len(RawOrder)
       THEN i' = i + 1 /\ pc' = pc
       ELSE i' = 1 /\ pc' = "grouped"
    /\ UNCHANGED <<ingested_data, loaded>>

\* lines 190-192 for the dataset name: the call of validate_grouped_data, if
\* the dataset has numeric fields and an ingested table
GroupedTurn(name) ==
    IF name \in DOMAIN numeric_fields /\ name \in DOMAIN ingested_data
    THEN LET r == validate_grouped_data(raw_data[name], ingested_data[name], name,
                                        DateField, numeric_fields[name], tol)
         IN  [raised |-> r.raised, log |-> r.log,
              calls |-> << Call("validate_grouped_data", name, tol) >>]
    ELSE [raised |-> FALSE, log |-> <<>>, calls |-> <<>>]

\* lines 189-192, one turn of the loop, for the dataset RawOrder[i]; an
\* exception validate_grouped_data lets through ends the script
ValidateGrouped ==
    /\ pc = "grouped"
    /\ \E turn \in {GroupedTurn(RawOrder[i])} :
          /\ log' = log \o turn.log
          /\ calls' = calls \o turn.calls
          /\ pc' = IF turn.raised THEN "crashed"
                   ELSE IF i < Len(RawOrder) THEN pc ELSE "complete"
          /\ i' = IF ~turn.raised /\ i < Len(RawOrder) THEN i + 1 ELSE i
    /\ UNCHANGED <<raw_data, ingested_data, loaded>>

\* line 194
Complete ==
    /\ pc = "complete"
    /\ log' = Append(log, LogRec("INFO", "completed", ""))
    /\ pc' = "done"
    /\ UNCHANGED <<raw_data, ingested_data, loaded, calls, i>>

Next ==
    \/ LoadRaw
    \/ LoadIngested
    \/ LoadFails
    \/ CleanRawNames
    \/ CleanIngestedNames
    \/ DropMetadata
    \/ ValidateCounts
    \/ ValidateGrouped
    \/ Complete

Spec == Init /\ [][Next]_vars

\* the interpreter runs the script on: no statement waits for anything
FairSpec == Spec /\ WF_vars(Next)

----------------------------------------------------------------------------
(* Properties of the script.                                               *)

GroupedEvents == {"grouped_match", "grouped_mismatch", "grouped_error"}

\* the records of the given events logged for the dataset
RecordsOf(name, events) ==
    LET Mine(rec) == rec.name = name /\ rec.event \in events
    IN  SelectSeq(log, Mine)

Labels(df) == {df.columns[k] : k \in DOMAIN df.columns}

\* the group field or a numeric field of the dataset is no column of df
FieldMissing(df, name) ==
    \/ DateField \notin Labels(df)
    \/ \E k \in DOMAIN numeric_fields[name] : numeric_fields[name][k] \notin Labels(df)

GroupedCalled(name) ==
    \E k \in DOMAIN calls :
        calls[k].fn = "validate_grouped_data" /\ calls[k].name = name

\* C6: validate_grouped_data never raises out of the validator: called with
\* the group field or a numeric field missing from either dataset, it logs
\* exactly one error record for that dataset and no match record, the script
\* goes on, and at the end of the run every dataset with a numeric-field
\* mapping has had its grouped validation.
C6_GroupedFailureIsLogged ==
    /\ \A name \in DOMAIN numeric_fields :
          (GroupedCalled(name)
           /\ (FieldMissing(raw_data[name], name) \/ FieldMissing(ingested_data[name], name)))
          => /\ Len(RecordsOf(name, GroupedEvents)) = 1
             /\ RecordsOf(name, GroupedEvents)[1].event = "grouped_error"
             /\ RecordsOf(name, GroupedEvents)[1].level = "ERROR"
    /\ pc = "crashed" => calls = <<>>
    /\ pc = "done" =>
          \A name \in {"revenue", "costs", "arr"} :
              /\ GroupedCalled(name)
              /\ Len(RecordsOf(name, GroupedEvents)) = 1

\* the ingested costs table has no group field: an error is logged for costs,
\* and revenue and arr, which come later, are validated and match
C6_Witness ==
    /\ pc = "done"
    /\ FieldMissing(ingested_data["costs"], "costs")
    /\ RecordsOf("costs", GroupedEvents)[1].event = "grouped_error"
    /\ RecordsOf("revenue", GroupedEvents)[1].event = "grouped_match"
    /\ RecordsOf("arr", GroupedEvents)[1].event = "grouped_match"

\* the validator calls of a complete run: the two count validations of every
\* dataset with a raw file and a table, then the grouped validations
ExpectedCalls ==
    << Call("validate_row_counts", "budget", <<>>),
       Call("validate_column_counts", "budget", <<>>),
       Call("validate_row_counts", "costs", <<>>),
       Call("validate_column_counts", "costs", <<>>),
       Call("validate_row_counts", "crm", <<>>),
       Call("validate_column_counts", "crm", <<>>),
       Call("validate_row_counts", "revenue", <<>>),
       Call("validate_column_counts", "revenue", <<>>),
       Call("validate_row_counts", "arr", <<>>),
       Call("validate_column_counts", "arr", <<>>),
       Call("validate_grouped_data", "costs", 1),
       Call("validate_grouped_data", "revenue", 1),
       Call("validate_grouped_data", "arr", 1) >>

IsPrefix(s, u) == Len(s) <= Len(u) /\ s = SubSeq(u, 1, Len(s))

\* C7: once the loads have succeeded, the run validates exactly the datasets
\* present in both sets: row count then column count, once each, whatever
\* mismatches came before; then the grouped validation, once, of revenue,
\* costs and arr; jira is passed to no validator and has no log record; and
\* the run goes on to the final "completed" record.
C7_RunValidatesEachOnce ==
    /\ [](/\ IsPrefix(calls, ExpectedCalls)
          /\ \A k \in DOMAIN log : log[k].name # "jira"
          /\ pc = "done" =>
                /\ calls = ExpectedCalls
                /\ log[Len(log)].event = "completed"
          /\ pc = "crashed" => loaded.ingested = NoData)
    /\ [](pc = "clean_raw" => <>(pc = "done"))

\* a run that found a row mismatch for budget and a column mismatch for costs
\* made every call and completed
C7_Witness ==
    /\ pc = "done"
    /\ calls = ExpectedCalls
    /\ Len(RecordsOf("budget", {"row_mismatch"})) = 1
    /\ Len(RecordsOf("costs", {"col_mismatch"})) = 1
    /\ Len(RecordsOf("arr", {"col_match"})) = 1
    /\ log[Len(log)].event = "completed"

\* the table of the dataset, as loaded, is its raw file plus columns of the
\* drop list only
RawPlusMetadata(name) ==
    DropColumns(loaded.ingested[name], columns_to_drop) = loaded.raw[name]

\* C8: a dataset whose table is its raw file plus metadata columns only gets a
\* row-count match and a column-count match, no mismatch of the grouped
\* validation when it has the group field and its numeric fields, and no ERROR
\* record at all.
C8_MetadataOnlyMeansNoError ==
    pc = "done" =>
        \A name \in RawNames :
            RawPlusMetadata(name) =>
                /\ Len(RecordsOf(name, {"row_match"})) = 1
                /\ Len(RecordsOf(name, {"col_match"})) = 1
                /\ (name \in DOMAIN numeric_fields /\ ~FieldMissing(loaded.raw[name], name))
                      => Len(RecordsOf(name, {"grouped_match"})) = 1
                /\ \A k \in DOMAIN log : log[k].name = name => log[k].level # "ERROR"

\* the columns of df are labelled as clean_column_names labels those of before
NamesCleaned(df, before) ==
    Labels(df) \subseteq {CleanName(before.columns[k]) : k \in DOMAIN before.columns}

\* the cells of the field are numbers, as clean_numeric_column leaves them
Coerced(df, field) ==
    HasColumn(df, field) =>
        \A r \in DOMAIN df.rows : IsNumber(Column(df, field)[r])

\* C10: whenever validate_grouped_data is called on a dataset, the labels of
\* both its frames are those clean_column_names gives and every numeric field
\* summed has been coerced to numbers by clean_numeric_column, on both sides.
C10_CleanedBeforeGrouped ==
    \A k \in DOMAIN calls :
        calls[k].fn = "validate_grouped_data" =>
            LET name == calls[k].name
            IN  /\ NamesCleaned(ingested_data[name], loaded.ingested[name])
                /\ \/ NamesCleaned(raw_data[name], loaded.raw[name])
                   \/ raw_data[name].columns = ingested_data[name].columns
                /\ \A f \in DOMAIN numeric_fields[name] :
                      /\ Coerced(raw_data[name], numeric_fields[name][f])
                      /\ Coerced(ingested_data[name], numeric_fields[name][f])

=============================================================================
